---- MODULE Spec2Model ----
(***************************************************************************)
(* Model of the examo marking pipeline (backend/apps/attempts,             *)
(* backend/apps/ai_marking): the background marking run _run_marking, the  *)
(* deterministic and AI graders, score aggregation, the progress fan-out,  *)
(* notification and e-mail steps, and the synchronous submit view.         *)
(*                                                                         *)
(* Units: scores are kept in hundredths of a mark (DecimalField with two   *)
(* decimal places), percentages in hundredths of a percent, confidences in *)
(* hundredths, and time in seconds.  A stored timestamp is kept as its age *)
(* (now - timestamp), saturated at EmailStaleSeconds: the only use the     *)
(* code makes of it is the comparison  (now - last_polled_at) < 15.        *)
(***************************************************************************)
EXTENDS Integers, Sequences, FiniteSets, TLC

VARIABLES
    attempt,        \* the persisted Attempt row
    answers,        \* the persisted Answer rows of the attempt, in question order
    progress,       \* the persisted MarkingProgress row (exists = FALSE: no row)
    notifications,  \* the persisted Notification rows of the user (their types)
    user,           \* the persisted User row
    study,          \* the user's StudySession rows (today's row, yesterday's presence)
    topic,          \* the user's TopicProgress row of the one topic
    w,              \* the marking thread: position and in-memory objects
    ai,             \* the AI service as the marking thread sees it
    req,            \* the HTTP requests in flight (synchronous views)
    hist            \* history: what has happened so far (never read by the program)

vars == <<attempt, answers, progress, notifications, user, study, topic, w, ai, req, hist>>

----------------------------------------------------------------------------
(* Bounds and program constants *)

NumQuestions == 5

\* marking_runner.py:326   if stale_seconds < 15
EmailStaleSeconds == 15
\* one step of the clock
TickSeconds == 15
\* services.py:263 and :266
BriefLen == 20
ShortLen == 50

Null == 0 - 1

----------------------------------------------------------------------------
(* Questions and the student's answers to them (fixtures).  Each kind is a *)
(* question together with what the student entered.                        *)

AnswerKinds == <<
    [question_type |-> "mcq",          marks |-> 5, correct_answer |-> "A",
     selected_option |-> "A", text_len |-> 0,  marking_scheme |-> FALSE, topics |-> TRUE],
    [question_type |-> "mcq",          marks |-> 5, correct_answer |-> "A",
     selected_option |-> "B", text_len |-> 0,  marking_scheme |-> FALSE, topics |-> TRUE],
    [question_type |-> "structured",   marks |-> 0, correct_answer |-> "",
     selected_option |-> "",  text_len |-> 0,  marking_scheme |-> FALSE, topics |-> FALSE],
    [question_type |-> "short_answer", marks |-> 3, correct_answer |-> "",
     selected_option |-> "",  text_len |-> 30, marking_scheme |-> FALSE, topics |-> TRUE],
    [question_type |-> "essay",        marks |-> 5, correct_answer |-> "",
     selected_option |-> "",  text_len |-> 60, marking_scheme |-> TRUE,  topics |-> TRUE]
>>

\* The paper: question n (in question order) is of kind KindOf(n).
KindOf(n) == ((n - 1) % Len(AnswerKinds)) + 1

\* An unmarked Answer row of the given kind.
NewAnswer(k) ==
    [kind |-> k, score |-> Null, is_correct |-> Null, ai_marked |-> FALSE,
     confidence_score |-> Null, confidence_level |-> ""]

\* Further questions and answers, for the graders alone: multiple-choice
\* questions left unanswered, a question without an answer key (correct_answer
\* is blank for a question imported from a paper that has no marking scheme),
\* and written answers at the length thresholds of the fallback.  text_len is
\* the length of answer_text.strip().
MoreKinds == <<
    [question_type |-> "mcq",          marks |-> 5, correct_answer |-> "A",
     selected_option |-> "",  text_len |-> 0,  marking_scheme |-> FALSE, topics |-> TRUE],
    [question_type |-> "mcq",          marks |-> 2, correct_answer |-> "",
     selected_option |-> "",  text_len |-> 0,  marking_scheme |-> FALSE, topics |-> TRUE],
    [question_type |-> "mcq",          marks |-> 2, correct_answer |-> "",
     selected_option |-> "B", text_len |-> 0,  marking_scheme |-> FALSE, topics |-> TRUE],
    [question_type |-> "short_answer", marks |-> 4, correct_answer |-> "",
     selected_option |-> "",  text_len |-> 19, marking_scheme |-> FALSE, topics |-> TRUE],
    [question_type |-> "short_answer", marks |-> 4, correct_answer |-> "",
     selected_option |-> "",  text_len |-> 20, marking_scheme |-> TRUE,  topics |-> TRUE],
    [question_type |-> "structured",   marks |-> 3, correct_answer |-> "",
     selected_option |-> "",  text_len |-> 49, marking_scheme |-> TRUE,  topics |-> TRUE],
    [question_type |-> "essay",        marks |-> 4, correct_answer |-> "",
     selected_option |-> "",  text_len |-> 50, marking_scheme |-> FALSE, topics |-> TRUE],
    [question_type |-> "short_answer", marks |-> 4, correct_answer |-> "",
     selected_option |-> "",  text_len |-> 0,  marking_scheme |-> FALSE, topics |-> TRUE]
>>

QuestionBank == AnswerKinds \o MoreKinds

Q(a) == QuestionBank[a.kind]

RECURSIVE SeqOfSet(_)
\* the members of a set of numbers, in increasing order
SeqOfSet(S) ==
    IF S = {} THEN <<>>
    ELSE LET m == CHOOSE x \in S : \A y \in S : x <= y
         IN <<m>> \o SeqOfSet(S \ {m})

\* The attempts the model starts from: the student has answered any subset of
\* the paper's NumQuestions questions; the Answer rows are listed in question
\* order (question.order, question.question_number).
AnswerSheets ==
    { [i \in DOMAIN SeqOfSet(S) |-> KindOf(SeqOfSet(S)[i])] : S \in SUBSET (1..NumQuestions) }

----------------------------------------------------------------------------
(* Arithmetic helpers *)

\* n / d rounded to the nearest integer, ties to even (decimal.ROUND_HALF_EVEN,
\* the rounding of DecimalField values on save), for n >= 0, d > 0
RoundHalfEven(n, d) ==
    LET q == n \div d
        r == n % d
    IN IF 2 * r < d THEN q
       ELSE IF 2 * r > d THEN q + 1
       ELSE IF q % 2 = 0 THEN q ELSE q + 1

Min(a, b) == IF a < b THEN a ELSE b
Max(a, b) == IF a > b THEN a ELSE b

----------------------------------------------------------------------------
(* Answer.mark_mcq and AIMarkingService (the graders).  Each takes an      *)
(* Answer row and returns the row as saved.                                *)

ConfidenceLevel(c) ==
    IF c >= 80 THEN "high" ELSE IF c >= 50 THEN "medium" ELSE "low"

\* a variant that never marks an unanswered question correct
mark_mcqAnswered(a) ==
    IF Q(a).question_type = "mcq"
    THEN LET correct == (Q(a).selected_option # ""
                         /\ Q(a).selected_option = Q(a).correct_answer)
         IN [a EXCEPT !.is_correct = IF correct THEN 1 ELSE 0,
                      !.score = IF correct THEN Q(a).marks * 100 ELSE 0,
                      !.ai_marked = FALSE,
                      !.confidence_score = 100,
                      !.confidence_level = "high"]
    ELSE a

\* Answer.mark_mcq: deterministic comparison of the selected option key
mark_mcq(a) ==
    IF Q(a).question_type = "mcq"
    THEN LET correct == (Q(a).selected_option = Q(a).correct_answer)
         IN [a EXCEPT !.is_correct = IF correct THEN 1 ELSE 0,
                      !.score = IF correct THEN Q(a).marks * 100 ELSE 0,
                      !.ai_marked = FALSE,
                      !.confidence_score = 100,
                      !.confidence_level = "high"]
    ELSE a

\* a variant that gives half the marks to every non-empty answer
FallbackScoreHalf(a) == IF Q(a).text_len = 0 THEN 0 ELSE Q(a).marks * 50

\* AIMarkingService._fallback_marking: the length heuristic
FallbackScore(a) ==
    IF Q(a).text_len = 0 THEN 0
    ELSE IF Q(a).text_len < BriefLen THEN Q(a).marks * 25
    ELSE IF Q(a).text_len < ShortLen THEN Q(a).marks * 50
    ELSE Q(a).marks * 60

\* a variant that writes the feedback but no score
_fallback_markingUnscored(a) ==
    [a EXCEPT !.ai_marked = FALSE,
              !.confidence_score = 30,
              !.confidence_level = "low"]

\* AIMarkingService._fallback_marking, lines 255-282: the stored row
_fallback_marking(a) ==
    [a EXCEPT !.score = FallbackScore(a),
              !.is_correct = IF FallbackScore(a) >= Q(a).marks * 50 THEN 1 ELSE 0,
              !.ai_marked = FALSE,
              !.confidence_score = 30,
              !.confidence_level = "low"]

\* The responses of the AI service the marking run is checked against:
\*   raise    the call raises (network error, 5xx, timeout)
\*   nojson   text without a parseable JSON object
\*   badtype  a JSON object whose score is not a number (float() raises TypeError)
\*   json     a JSON object with a score (hundredths) and a confidence (hundredths)
JsonResponse(s, c) == [kind |-> "json", score |-> s, confidence |-> c]
PlainResponse(k) == [kind |-> k, score |-> 0, confidence |-> 0]

\* a variant that stores the returned score as it is
_parse_marking_responseUnclamped(resp, max_marks) ==
    IF resp.kind = "json"
    THEN [score |-> resp.score, confidence |-> resp.confidence]
    ELSE [score |-> max_marks * 50, confidence |-> 50]

\* AIMarkingService._parse_marking_response: clamp the score into [0, max_marks];
\* the safe default (half marks, confidence 0.5) when no JSON object parses
_parse_marking_response(resp, max_marks) ==
    IF resp.kind = "json"
    THEN [score |-> Max(0, Min(resp.score, max_marks * 100)),
          confidence |-> resp.confidence]
    ELSE [score |-> max_marks * 50, confidence |-> 50]

\* a variant without the cap
CappedConfidenceNone(a, c) == c

\* the raw confidence as stored: capped at 0.79 without a marking scheme
CappedConfidence(a, c) ==
    IF ~Q(a).marking_scheme /\ c > 79 THEN 79 ELSE c

\* AIMarkingService.mark_answer, the AI path after a response has arrived
MarkFromResponse(a, resp) ==
    LET result == _parse_marking_response(resp, Q(a).marks)
        conf == CappedConfidence(a, result.confidence)
    IN [a EXCEPT !.score = result.score,
                 !.is_correct = IF result.score >= Q(a).marks * 50 THEN 1 ELSE 0,
                 !.ai_marked = TRUE,
                 !.confidence_score = conf,
                 !.confidence_level = ConfidenceLevel(conf)]

\* AIMarkingService.__init__: the service object; client is whether the API
\* client could be constructed (an API key is set and anthropic initialises)
AIMarkingService(client) == [client |-> client]

\* whether mark_answer reaches client.messages.create for this answer
CallsAI(a, client) == Q(a).text_len > 0 /\ client

\* a variant without the except Exception clause: an error of the AI call
\* escapes mark_answer
MarkAnswerRaisesOnError(a, client, resp) == client /\ resp.kind = "raise"

\* AIMarkingService.mark_answer, lines 67-118: whether an exception of the AI
\* call or of the parsing escapes mark_answer (never: except Exception falls
\* back to the heuristic)
MarkAnswerRaises(a, client, resp) == FALSE

\* AIMarkingService.mark_answer: client is whether the API client was
\* constructed, resp the response of this call (read only when a call is made)
mark_answer(a, client, resp) ==
    IF Q(a).text_len = 0
    THEN [a EXCEPT !.score = 0, !.is_correct = 0, !.ai_marked = TRUE,
                   !.confidence_score = 100, !.confidence_level = "high"]
    ELSE IF ~client THEN _fallback_marking(a)
    ELSE IF resp.kind \in {"raise", "badtype"} THEN _fallback_marking(a)
    ELSE MarkFromResponse(a, resp)

----------------------------------------------------------------------------
(* Attempt.calculate_score *)

RECURSIVE SumScores(_)
\* sum of the non-null scores of a sequence of Answer rows
SumScores(s) ==
    IF s = <<>> THEN 0
    ELSE (IF Head(s).score = Null THEN 0 ELSE Head(s).score) + SumScores(Tail(s))

RECURSIVE SumMarks(_)
\* sum of question.marks over a sequence of Answer rows
SumMarks(s) ==
    IF s = <<>> THEN 0 ELSE Q(Head(s)).marks + SumMarks(Tail(s))

HasScored(s) == \E i \in DOMAIN s : s[i].score # Null

\* a variant that truncates the percentage to two decimal places
PercentageTruncated(total, max_score) == (total * 100) \div max_score

\* the percentage as persisted: total / max * 100 at two decimal places
PercentageOf(total, max_score) == RoundHalfEven(total * 100, max_score)

\* Attempt.calculate_score on the in-memory attempt obj, given the Answer rows:
\* the object after the call
ScoredAttempt(obj, rows) ==
    IF HasScored(rows)
    THEN [obj EXCEPT !.total_score = SumScores(rows),
                     !.percentage = IF SumMarks(rows) > 0
                                    THEN PercentageOf(SumScores(rows), SumMarks(rows))
                                    ELSE obj.percentage]
    ELSE obj

\* Attempt.calculate_score: the row persisted by the call (self.save() runs only
\* when some answer has a score)
calculate_score(row, obj, rows) ==
    IF HasScored(rows) THEN ScoredAttempt(obj, rows) ELSE row

----------------------------------------------------------------------------
(* MarkingProgress: the one-to-one shadow of an Attempt                     *)

\* a message of the log: its kind and the answer it is about (0: none)
Msg(kind, n) == <<kind, n>>

\* MarkingProgress.add_message on an in-memory object: append to the log
add_message(obj, kind, n) ==
    [obj EXCEPT !.messages = Append(obj.messages, Msg(kind, n))]

\* a variant: save() without update_fields writes every field of the object
SaveAllFields(row, obj, fields) == obj

\* Model.save(update_fields = fields): the row after saving the in-memory obj
SaveFields(row, obj, fields) ==
    [f \in DOMAIN row |-> IF f \in fields THEN obj[f] ELSE row[f]]

NoProgress ==
    [exists |-> FALSE, status |-> "pending", messages |-> <<>>,
     questions_marked |-> 0, current_question_number |-> 0,
     error_message |-> FALSE, started_at |-> FALSE, completed_at |-> FALSE,
     notification_sent |-> FALSE, email_sent |-> FALSE, last_polled_at |-> Null]

\* the Attempt row of an attempt the student is working on
NewAttempt ==
    [status |-> "in_progress", total_score |-> Null, percentage |-> Null,
     submitted_at |-> FALSE, marked_at |-> FALSE]

\* a timestamp field after TickSeconds have passed (Null: never set)
Aged(t) == IF t = Null THEN Null ELSE Min(t + TickSeconds, EmailStaleSeconds)

Terminal == {"completed", "failed"}

----------------------------------------------------------------------------
(* The marking thread, marking_runner._run_marking                          *)

\* the marking thread at position pc with none of its local objects bound:
\* before it starts, when control enters the except handler (which re-loads
\* what it uses), and after it has returned
Thread(pc) ==
    [pc |-> pc, attempt |-> NewAttempt, progress |-> NoProgress,
     email_notifications |-> FALSE, current_streak_days |-> 0,
     longest_streak_days |-> 0,
     mcq |-> <<>>, written |-> <<>>, idx |-> 0, mcq_correct |-> 0, score |-> 0]

\* start_marking_thread: a daemon thread that will run _run_marking(attempt_id)
start_marking_thread(t) == [t EXCEPT !.pc = "load"]

RECURSIVE SelectIdx(_, _, _)
\* a variant of the query without order_by: the rows come last to first
SelectIdxUnordered(rows, from, mcq) ==
    IF from > Len(rows) THEN <<>>
    ELSE IF (Q(rows[from]).question_type = "mcq") = mcq
         THEN SelectIdx(rows, from + 1, mcq) \o <<from>>
         ELSE SelectIdx(rows, from + 1, mcq)

\* the indices i >= from of the Answer rows whose question is (mcq = TRUE) or
\* is not (mcq = FALSE) multiple choice, in question order
SelectIdx(rows, from, mcq) ==
    IF from > Len(rows) THEN <<>>
    ELSE IF (Q(rows[from]).question_type = "mcq") = mcq
         THEN <<from>> \o SelectIdx(rows, from + 1, mcq)
         ELSE SelectIdx(rows, from + 1, mcq)

MainPcs ==
    {"load", "begin", "mcq_query", "mcq", "mcq_summary", "w_query", "w_progress",
     "w_fun", "w_mark", "w_refresh", "w_result", "w_flavor", "w_milestone", "calc",
     "score", "sync_topics", "sync_session", "sync_streak", "refresh", "complete",
     "notify", "notify_save", "email", "email_save"}

HandlerPcs == {"h_load", "h_save", "h_notify"}

\* the steps from the end of MCQ marking up to the aggregation step
AfterMcqPcs ==
    {"mcq_summary", "w_query", "w_progress", "w_fun", "w_mark", "w_refresh",
     "w_result", "w_flavor", "w_milestone", "calc"}

\* lines 60-66: load the attempt (with its user) and its progress row
WLoad ==
    /\ w.pc = "load"
    /\ progress.exists
    /\ w' = [w EXCEPT !.pc = "begin", !.attempt = attempt, !.progress = progress,
                      !.email_notifications = user.email_notifications,
                      !.current_streak_days = user.current_streak_days,
                      !.longest_streak_days = user.longest_streak_days]
    /\ UNCHANGED <<attempt, answers, progress, notifications, user, study, topic, ai, req, hist>>

\* lines 69-72
WBegin ==
    /\ w.pc = "begin"
    /\ LET obj == add_message([w.progress EXCEPT !.status = "marking",
                                                 !.started_at = TRUE], "info", 0)
       IN /\ progress' = SaveFields(progress, obj, {"status", "started_at", "messages"})
          /\ w' = [w EXCEPT !.pc = "mcq_query", !.progress = obj]
    /\ UNCHANGED <<attempt, answers, notifications, user, study, topic, ai, req, hist>>

\* line 76: the multiple-choice answers
WMcqQuery ==
    /\ w.pc = "mcq_query"
    /\ LET found == SelectIdx(answers, 1, TRUE)
       IN w' = [w EXCEPT !.mcq = found, !.idx = 1, !.mcq_correct = 0,
                         !.pc = IF found = <<>> THEN "w_query" ELSE "mcq"]
    /\ UNCHANGED <<attempt, answers, progress, notifications, user, study, topic, ai, req, hist>>

\* lines 78-82: one iteration of the MCQ loop
WMcq ==
    /\ w.pc = "mcq"
    /\ LET n == w.mcq[w.idx]
           marked == mark_mcq(answers[n])
       IN /\ answers' = [answers EXCEPT ![n] = marked]
          /\ w' = [w EXCEPT !.mcq_correct = @ + (IF marked.is_correct = 1 THEN 1 ELSE 0),
                            !.progress.questions_marked = @ + 1,
                            !.idx = @ + 1,
                            !.pc = IF w.idx < Len(w.mcq) THEN "mcq" ELSE "mcq_summary"]
    /\ UNCHANGED <<attempt, progress, notifications, user, study, topic, ai, req, hist>>

\* lines 84-89
WMcqSummary ==
    /\ w.pc = "mcq_summary"
    /\ LET obj == add_message(w.progress, "info", 0)
       IN /\ progress' = SaveFields(progress, obj, {"questions_marked", "messages"})
          /\ w' = [w EXCEPT !.pc = "w_query", !.progress = obj]
    /\ UNCHANGED <<attempt, answers, notifications, user, study, topic, ai, req, hist>>

\* lines 92-103: construct the marking service (with or without an API
\* client) and list the written answers, in question order
WWrittenQuery ==
    /\ w.pc = "w_query"
    /\ \E client \in BOOLEAN : ai' = AIMarkingService(client)
    /\ LET found == SelectIdx(answers, 1, FALSE)
       IN w' = [w EXCEPT !.written = found, !.idx = 1,
                         !.pc = IF found = <<>> THEN "calc" ELSE "w_progress"]
    /\ UNCHANGED <<attempt, answers, progress, notifications, user, study, topic, req, hist>>

\* lines 113-118
WProgress ==
    /\ w.pc = "w_progress"
    /\ LET n == w.written[w.idx]
           obj == add_message([w.progress EXCEPT !.current_question_number = n],
                              "progress", n)
       IN /\ progress' = SaveFields(progress, obj,
                                    {"current_question_number", "messages"})
          /\ w' = [w EXCEPT !.pc = "w_fun", !.progress = obj]
    /\ UNCHANGED <<attempt, answers, notifications, user, study, topic, ai, req, hist>>

\* lines 121-123: random.random() < 0.4
WFun ==
    /\ w.pc = "w_fun"
    /\ \E lucky \in BOOLEAN :
         IF lucky
         THEN LET obj == add_message(w.progress, "fun", 0)
              IN /\ progress' = SaveFields(progress, obj, {"messages"})
                 /\ w' = [w EXCEPT !.pc = "w_mark", !.progress = obj]
         ELSE /\ w' = [w EXCEPT !.pc = "w_mark"]
              /\ UNCHANGED progress
    /\ UNCHANGED <<attempt, answers, notifications, user, study, topic, ai, req, hist>>

\* the responses the AI service may give to one grading call of answer a: the
\* call raises, or returns a JSON object whose score lies outside [0, marks]
\* (below for a question of fewer than 5 marks, above otherwise)
RunResponses(a) ==
    { PlainResponse("raise"),
      JsonResponse(IF Q(a).marks < 5 THEN 0 - 100 ELSE Q(a).marks * 100 + 200, 95) }

\* line 126: marking_service.mark_answer(answer)
WMark ==
    /\ w.pc = "w_mark"
    /\ LET n == w.written[w.idx]
           called == CallsAI(answers[n], ai.client)
       IN \E resp \in (IF called THEN RunResponses(answers[n])
                                 ELSE {PlainResponse("raise")}) :
            LET failed == (~called /\ Q(answers[n]).text_len > 0)
                          \/ (called /\ resp.kind # "json")
                counted == [hist EXCEPT !.aiCalls = @ + (IF called THEN 1 ELSE 0),
                                        !.aiFailures = @ + (IF failed THEN 1 ELSE 0)]
            IN IF MarkAnswerRaises(answers[n], ai.client, resp)
               THEN /\ w' = Thread("h_load")
                    /\ hist' = [counted EXCEPT !.errAt = "w_mark"]
                    /\ UNCHANGED answers
               ELSE /\ answers' = [answers EXCEPT
                                     ![n] = mark_answer(answers[n], ai.client, resp)]
                    /\ w' = [w EXCEPT !.pc = "w_refresh"]
                    /\ hist' = counted
    /\ UNCHANGED <<attempt, progress, notifications, user, study, topic, ai, req>>

\* lines 130-134: answer.refresh_from_db(); score = answer.score or 0
WRefreshAnswer ==
    /\ w.pc = "w_refresh"
    /\ LET n == w.written[w.idx]
       IN w' = [w EXCEPT !.pc = "w_result",
                         !.score = IF answers[n].score = Null THEN 0 ELSE answers[n].score]
    /\ UNCHANGED <<attempt, answers, progress, notifications, user, study, topic, ai, req, hist>>

\* line 147-154: a flavour message for a high (>= 80%) or low (< 40%) score
HasFlavor(t) ==
    LET max_marks == Q(answers[t.written[t.idx]]).marks
    IN max_marks > 0 /\ (t.score >= 80 * max_marks \/ t.score < 40 * max_marks)

\* lines 157-162: the halfway and the one-more-to-go messages
HasMilestone(t) ==
    LET total_written == Len(t.written)
    IN \/ total_written > 2 /\ t.idx = total_written \div 2
       \/ total_written > 3 /\ t.idx = total_written - 1

\* where the loop over the written answers goes after answer idx is done
AfterAnswer(t) ==
    IF t.idx < Len(t.written)
    THEN [t EXCEPT !.pc = "w_progress", !.idx = @ + 1]
    ELSE [t EXCEPT !.pc = "calc"]

AfterFlavor(t) ==
    IF HasMilestone(t) THEN [t EXCEPT !.pc = "w_milestone"] ELSE AfterAnswer(t)

AfterResult(t) ==
    IF HasFlavor(t) THEN [t EXCEPT !.pc = "w_flavor"] ELSE AfterFlavor(t)

\* lines 139-144
WResult ==
    /\ w.pc = "w_result"
    /\ LET n == w.written[w.idx]
           obj == add_message([w.progress EXCEPT !.questions_marked = @ + 1],
                              "result", n)
       IN /\ progress' = SaveFields(progress, obj, {"questions_marked", "messages"})
          /\ w' = AfterResult([w EXCEPT !.progress = obj])
    /\ UNCHANGED <<attempt, answers, notifications, user, study, topic, ai, req, hist>>

\* lines 147-154
WFlavor ==
    /\ w.pc = "w_flavor"
    /\ LET obj == add_message(w.progress, "fun", 0)
       IN /\ progress' = SaveFields(progress, obj, {"messages"})
          /\ w' = AfterFlavor([w EXCEPT !.progress = obj])
    /\ UNCHANGED <<attempt, answers, notifications, user, study, topic, ai, req, hist>>

\* lines 157-162
WMilestone ==
    /\ w.pc = "w_milestone"
    /\ LET obj == add_message(w.progress, "info", 0)
       IN /\ progress' = SaveFields(progress, obj, {"messages"})
          /\ w' = AfterAnswer([w EXCEPT !.progress = obj])
    /\ UNCHANGED <<attempt, answers, notifications, user, study, topic, ai, req, hist>>

\* lines 166-170
WCalculating ==
    /\ w.pc = "calc"
    /\ LET obj == add_message([w.progress EXCEPT !.status = "calculating",
                                                 !.current_question_number = 0],
                              "info", 0)
       IN /\ progress' = SaveFields(progress, obj,
                                    {"status", "current_question_number", "messages"})
          /\ w' = [w EXCEPT !.pc = "score", !.progress = obj]
    /\ UNCHANGED <<attempt, answers, notifications, user, study, topic, ai, req, hist>>

\* lines 172-174: attempt.status = 'marked'; attempt.calculate_score()
WScore ==
    /\ w.pc = "score"
    /\ LET obj == [w.attempt EXCEPT !.status = "marked", !.marked_at = TRUE]
       IN /\ attempt' = calculate_score(attempt, obj, answers)
          /\ w' = [w EXCEPT !.pc = "sync_topics", !.attempt = ScoredAttempt(obj, answers)]
    /\ hist' = [hist EXCEPT !.aggregated = TRUE,
                            !.scoreWrites = @ + (IF HasScored(answers) THEN 1 ELSE 0)]
    /\ UNCHANGED <<answers, progress, notifications, user, study, topic, ai, req>>

----------------------------------------------------------------------------
(* marking_runner._sync_progress_tables: TopicProgress, StudySession, streak *)

RECURSIVE CountCorrect(_)
\* the number of rows with a truthy is_correct
CountCorrect(s) ==
    IF s = <<>> THEN 0
    ELSE (IF Head(s).is_correct = 1 THEN 1 ELSE 0) + CountCorrect(Tail(s))

\* the rows whose question carries the topic
Tagged(rows) == SelectSeq(rows, LAMBDA a : Q(a).topics)

\* TopicProgress.update_mastery: the level for earned (hundredths) out of possible
MasteryLevel(earned, possible) ==
    IF possible = 0 THEN "not_started"
    ELSE IF earned >= 90 * possible THEN "mastered"
    ELSE IF earned >= 75 * possible THEN "proficient"
    ELSE IF earned >= 50 * possible THEN "developing"
    ELSE IF earned > 0 THEN "beginner"
    ELSE "not_started"

\* lines 230-254: the TopicProgress row after the attempt's answers are added
\* (PositiveIntegerField: the Decimal sum is truncated to an integer on save)
SyncedTopic(tp, rows) ==
    LET mine == Tagged(rows)
        earned == tp.total_marks_earned * 100 + SumScores(mine)
        possible == tp.total_marks_possible + SumMarks(mine)
    IN IF mine = <<>> THEN tp
       ELSE [exists |-> TRUE,
             questions_attempted |-> tp.questions_attempted + Len(mine),
             questions_correct |-> tp.questions_correct + CountCorrect(mine),
             total_marks_earned |-> earned \div 100,
             total_marks_possible |-> possible,
             mastery_level |-> MasteryLevel(earned, possible)]

\* lines 256-280: today's StudySession row, created or incremented
SyncedSession(st, rows) ==
    [st EXCEPT !.today = TRUE,
               !.questions_attempted = @ + Len(rows),
               !.questions_correct = @ + CountCorrect(rows),
               !.marks_earned = (@ * 100 + SumScores(rows)) \div 100,
               !.marks_possible = @ + SumMarks(rows)]

\* a variant that always extends the streak
NextStreakAlways(current, studied_yesterday) == current + 1

\* lines 286-289: the running streak
NextStreak(current, studied_yesterday) ==
    IF studied_yesterday THEN current + 1 ELSE 1

WSyncTopics ==
    /\ w.pc = "sync_topics"
    /\ topic' = SyncedTopic(topic, answers)
    /\ w' = [w EXCEPT !.pc = "sync_session"]
    /\ UNCHANGED <<attempt, answers, progress, notifications, user, study, ai, req, hist>>

WSyncSession ==
    /\ w.pc = "sync_session"
    /\ study' = SyncedSession(study, answers)
    /\ w' = [w EXCEPT !.pc = "sync_streak"]
    /\ UNCHANGED <<attempt, answers, progress, notifications, user, topic, ai, req, hist>>

\* lines 283-294
WSyncStreak ==
    /\ w.pc = "sync_streak"
    /\ LET current == NextStreak(w.current_streak_days, study.yesterday)
           longest == Max(w.longest_streak_days, current)
       IN /\ study' = [study EXCEPT !.streak_maintained = study.yesterday]
          /\ user' = [user EXCEPT !.current_streak_days = current,
                                  !.longest_streak_days = longest]
          /\ w' = [w EXCEPT !.pc = "refresh", !.current_streak_days = current,
                            !.longest_streak_days = longest]
    /\ UNCHANGED <<attempt, answers, progress, notifications, topic, ai, req, hist>>

----------------------------------------------------------------------------
(* _run_marking, steps 5-7: completion, notification, e-mail                *)

\* line 181: progress.refresh_from_db()
WRefreshProgress ==
    /\ w.pc = "refresh"
    /\ w' = [w EXCEPT !.pc = "complete", !.progress = progress]
    /\ UNCHANGED <<attempt, answers, progress, notifications, user, study, topic, ai, req, hist>>

\* lines 182-186
WComplete ==
    /\ w.pc = "complete"
    /\ LET obj == add_message([w.progress EXCEPT !.status = "completed",
                                                 !.completed_at = TRUE],
                              "complete", 0)
       IN /\ progress' = SaveFields(progress, obj, {"status", "completed_at", "messages"})
          /\ w' = [w EXCEPT !.pc = "notify", !.progress = obj]
    /\ UNCHANGED <<attempt, answers, notifications, user, study, topic, ai, req, hist>>

\* _create_notification, lines 299-310
WNotify ==
    /\ w.pc = "notify"
    /\ notifications' = Append(notifications, "marking_complete")
    /\ w' = [w EXCEPT !.pc = "notify_save"]
    /\ UNCHANGED <<attempt, answers, progress, user, study, topic, ai, req, hist>>

\* _create_notification, lines 311-312
WNotifySave ==
    /\ w.pc = "notify_save"
    /\ LET obj == [w.progress EXCEPT !.notification_sent = TRUE]
       IN /\ progress' = SaveFields(progress, obj, {"notification_sent"})
          /\ w' = [w EXCEPT !.pc = "email", !.progress = obj]
    /\ UNCHANGED <<attempt, answers, notifications, user, study, topic, ai, req, hist>>

\* _maybe_send_email, lines 320-327: whether the e-mail is to be sent, decided
\* on the in-memory user and progress objects
WantsEmail(t) ==
    /\ t.email_notifications
    /\ ~(t.progress.last_polled_at # Null /\ t.progress.last_polled_at < EmailStaleSeconds)

\* whether the user polled within the last EmailStaleSeconds, per the database
PolledRecently == progress.last_polled_at # Null /\ progress.last_polled_at < EmailStaleSeconds

\* _maybe_send_email up to _send_results_email, lines 317-329
WEmail ==
    /\ w.pc = "email"
    /\ w' = IF WantsEmail(w) THEN [w EXCEPT !.pc = "email_save"] ELSE Thread("done")
    /\ hist' = [hist EXCEPT !.emails = @ + (IF WantsEmail(w) THEN 1 ELSE 0),
                            !.emailDecided = TRUE,
                            !.watching = PolledRecently]
    /\ UNCHANGED <<attempt, answers, progress, notifications, user, study, topic, ai, req>>

\* _maybe_send_email, lines 330-331
WEmailSave ==
    /\ w.pc = "email_save"
    /\ LET obj == [w.progress EXCEPT !.email_sent = TRUE]
       IN /\ progress' = SaveFields(progress, obj, {"email_sent"})
          /\ w' = Thread("done")
    /\ UNCHANGED <<attempt, answers, notifications, user, study, topic, ai, req, hist>>

----------------------------------------------------------------------------
(* _run_marking, the top-level except handler (lines 194-219)               *)

\* an exception raised by the current step of the try block (a database
\* operation that fails, any unexpected error): control passes to the handler
WRaise ==
    /\ w.pc \in MainPcs
    /\ w' = Thread("h_load")
    /\ hist' = [hist EXCEPT !.errAt = w.pc, !.dbError = TRUE]
    /\ UNCHANGED <<attempt, answers, progress, notifications, user, study, topic, ai, req>>

\* line 199: MarkingProgress.objects.get(attempt_id=attempt_id)
HLoad ==
    /\ w.pc = "h_load"
    /\ w' = [w EXCEPT !.pc = "h_save", !.progress = progress]
    /\ UNCHANGED <<attempt, answers, progress, notifications, user, study, topic, ai, req, hist>>

\* a variant of the handler that records the error but leaves the status
FailedProgressKeepsStatus(obj) ==
    add_message([obj EXCEPT !.error_message = TRUE, !.completed_at = TRUE], "error", 0)

\* a variant of the handler that does not stamp completed_at
FailedProgressNoTimestamp(obj) ==
    add_message([obj EXCEPT !.status = "failed", !.error_message = TRUE], "error", 0)

\* lines 200-203: what the handler sets on the re-loaded progress object
FailedProgress(obj) ==
    add_message([obj EXCEPT !.status = "failed", !.error_message = TRUE,
                            !.completed_at = TRUE],
                "error", 0)

\* lines 200-204
HSave ==
    /\ w.pc = "h_save"
    /\ LET obj == FailedProgress(w.progress)
       IN /\ progress' = SaveFields(progress, obj,
                                    {"status", "error_message", "messages", "completed_at"})
          /\ w' = [w EXCEPT !.pc = "h_notify", !.progress = obj]
    /\ UNCHANGED <<attempt, answers, notifications, user, study, topic, ai, req, hist>>

\* lines 207-217: re-load the attempt and create the failure notification
HNotify ==
    /\ w.pc = "h_notify"
    /\ notifications' = Append(notifications, "marking_failed")
    /\ w' = Thread("done")
    /\ UNCHANGED <<attempt, answers, progress, user, study, topic, ai, req, hist>>

\* lines 218-219: the recovery path itself raises; the failure is only logged
HRaise ==
    /\ w.pc \in HandlerPcs
    /\ w' = Thread("done")
    /\ hist' = [hist EXCEPT !.recoveryFailed = TRUE]
    /\ UNCHANGED <<attempt, answers, progress, notifications, user, study, topic, ai, req>>

WorkerStep ==
    \/ WLoad \/ WBegin \/ WMcqQuery \/ WMcq \/ WMcqSummary \/ WWrittenQuery
    \/ WProgress \/ WFun \/ WMark \/ WRefreshAnswer \/ WResult \/ WFlavor
    \/ WMilestone \/ WCalculating \/ WScore \/ WSyncTopics \/ WSyncSession
    \/ WSyncStreak \/ WRefreshProgress \/ WComplete \/ WNotify \/ WNotifySave
    \/ WEmail \/ WEmailSave \/ HLoad \/ HSave \/ HNotify

----------------------------------------------------------------------------
(* The environment of the marking thread                                    *)

\* The submit trigger of the background variant: the attempt must be
\* in_progress; it is flipped to submitted, its MarkingProgress row is created
\* (pending) and the marking thread is launched.
SubmitLaunch ==
    /\ attempt.status = "in_progress"
    /\ ~progress.exists
    /\ w.pc = "idle"
    /\ attempt' = [attempt EXCEPT !.status = "submitted", !.submitted_at = TRUE]
    /\ progress' = [NoProgress EXCEPT !.exists = TRUE]
    /\ w' = start_marking_thread(w)
    /\ UNCHANGED <<answers, notifications, user, study, topic, ai, req, hist>>

\* The progress poll: read-only, except that it stamps last_polled_at = now
Poll ==
    /\ progress.exists
    /\ progress.last_polled_at # 0
    /\ progress' = [progress EXCEPT !.last_polled_at = 0]
    /\ UNCHANGED <<attempt, answers, notifications, user, study, topic, w, ai, req, hist>>

\* TickSeconds pass: every stored timestamp grows older
Tick ==
    /\ progress.exists
    /\ progress.last_polled_at # Aged(progress.last_polled_at)
    /\ progress' = [progress EXCEPT !.last_polled_at = Aged(@)]
    /\ w' = [w EXCEPT !.progress.last_polled_at = Aged(@)]
    /\ UNCHANGED <<attempt, answers, notifications, user, study, topic, ai, req, hist>>

----------------------------------------------------------------------------
(* The marking run of one attempt                                           *)

NoHistory ==
    [errAt |-> "none", dbError |-> FALSE, recoveryFailed |-> FALSE,
     aiCalls |-> 0, aiFailures |-> 0, aggregated |-> FALSE, scoreWrites |-> 0,
     emails |-> 0, emailDecided |-> FALSE, watching |-> FALSE, flips |-> 0]

NoTopic ==
    [exists |-> FALSE, questions_attempted |-> 0, questions_correct |-> 0,
     total_marks_earned |-> 0, total_marks_possible |-> 0,
     mastery_level |-> "not_started"]

NoStudy(yesterday) ==
    [today |-> FALSE, yesterday |-> yesterday, questions_attempted |-> 0,
     questions_correct |-> 0, marks_earned |-> 0, marks_possible |-> 0,
     streak_maintained |-> FALSE]

Init ==
    /\ attempt = NewAttempt
    /\ \E sheet \in AnswerSheets :
         answers = [i \in DOMAIN sheet |-> NewAnswer(sheet[i])]
    /\ progress = NoProgress
    /\ notifications = <<>>
    /\ \E e \in BOOLEAN :
         user = [email_notifications |-> e, current_streak_days |-> 0,
                 longest_streak_days |-> 0]
    /\ study = NoStudy(FALSE)
    /\ topic = NoTopic
    /\ ai = AIMarkingService(FALSE)
    /\ w = Thread("idle")
    /\ req = <<>>
    /\ hist = NoHistory

Next ==
    \/ SubmitLaunch
    \/ WorkerStep
    \/ WRaise
    \/ HRaise
    \/ Poll
    \/ Tick

Spec == Init /\ [][Next]_vars

\* the marking thread is scheduled until it returns
LiveSpec == Spec /\ WF_vars(WorkerStep)

----------------------------------------------------------------------------
(* The synchronous views of attempts/views.py.  Each request is a thread of *)
(* the web server: it reads the Attempt row into an object of its own, and  *)
(* every database operation of the view is one step.                        *)

NumRequests == 2

NewRequest ==
    [pc |-> "new", action |-> "", attempt |-> NewAttempt, rows |-> <<>>,
     list |-> <<>>, idx |-> 0, target |-> 0,
     service |-> AIMarkingService(FALSE), graded |-> 0, response |-> 0]

\* the response of a view, and the end of the request
Respond(r, code) == [r EXCEPT !.pc = "responded", !.response = code]

\* AttemptSubmitView.post, lines 61-76: load the attempt, refuse it unless it
\* is in_progress
SubmitGet(i) ==
    /\ req[i].pc = "new"
    /\ req' = [req EXCEPT ![i] =
                 IF attempt.status # "in_progress"
                 THEN Respond([@ EXCEPT !.action = "submit", !.attempt = attempt], 400)
                 ELSE [@ EXCEPT !.action = "submit", !.attempt = attempt, !.pc = "flip"]]
    /\ UNCHANGED <<attempt, answers, progress, notifications, user, study, topic, w, ai, hist>>

\* lines 79-82: attempt.status = 'submitted'; attempt.save()  (every field of
\* the request's object is written)
SubmitSave(i) ==
    /\ req[i].pc = "flip"
    /\ LET obj == [req[i].attempt EXCEPT !.status = "submitted", !.submitted_at = TRUE]
       IN /\ attempt' = obj
          /\ req' = [req EXCEPT ![i].attempt = obj, ![i].pc = "mcq_query"]
    /\ hist' = [hist EXCEPT !.flips = @ + 1]
    /\ UNCHANGED <<answers, progress, notifications, user, study, topic, w, ai>>

\* line 85: the multiple-choice answers of the attempt (the queryset is
\* evaluated once: the loop works on the Answer objects as loaded here, and
\* each save() writes every field of its object)
SubmitMcqQuery(i) ==
    /\ req[i].pc = "mcq_query"
    /\ LET found == SelectIdx(answers, 1, TRUE)
       IN req' = [req EXCEPT ![i].rows = answers, ![i].list = found, ![i].idx = 1,
                             ![i].pc = IF found = <<>> THEN "w_query" ELSE "mcq"]
    /\ UNCHANGED <<attempt, answers, progress, notifications, user, study, topic, w, ai, hist>>

\* line 86: answer.mark_mcq()
SubmitMcq(i) ==
    /\ req[i].pc = "mcq"
    /\ LET n == req[i].list[req[i].idx]
       IN answers' = [answers EXCEPT ![n] = mark_mcq(req[i].rows[n])]
    /\ req' = [req EXCEPT ![i].idx = @ + 1,
                          ![i].pc = IF req[i].idx < Len(req[i].list) THEN "mcq" ELSE "w_query"]
    /\ UNCHANGED <<attempt, progress, notifications, user, study, topic, w, ai, hist>>

\* lines 89-92: construct the marking service and list the written answers
SubmitWrittenQuery(i) ==
    /\ req[i].pc = "w_query"
    /\ \E client \in BOOLEAN :
         LET found == SelectIdx(answers, 1, FALSE)
         IN req' = [req EXCEPT ![i].rows = answers, ![i].list = found, ![i].idx = 1,
                               ![i].service = AIMarkingService(client),
                               ![i].pc = IF found = <<>> THEN "score" ELSE "written"]
    /\ UNCHANGED <<attempt, answers, progress, notifications, user, study, topic, w, ai, hist>>

\* line 93: marking_service.mark_answer(answer)
SubmitMark(i) ==
    /\ req[i].pc = "written"
    /\ LET n == req[i].list[req[i].idx]
       IN \E resp \in RunResponses(req[i].rows[n]) :
            answers' = [answers EXCEPT
                          ![n] = mark_answer(req[i].rows[n], req[i].service.client, resp)]
    /\ req' = [req EXCEPT ![i].idx = @ + 1, ![i].graded = @ + 1,
                          ![i].pc = IF req[i].idx < Len(req[i].list) THEN "written" ELSE "score"]
    /\ UNCHANGED <<attempt, progress, notifications, user, study, topic, w, ai, hist>>

\* lines 96-98: attempt.status = 'marked'; attempt.calculate_score()
SubmitScore(i) ==
    /\ req[i].pc = "score"
    /\ LET obj == [req[i].attempt EXCEPT !.status = "marked", !.marked_at = TRUE]
       IN /\ attempt' = calculate_score(attempt, obj, answers)
          /\ req' = [req EXCEPT ![i].attempt = ScoredAttempt(obj, answers),
                                ![i].pc = "respond"]
    /\ hist' = [hist EXCEPT !.aggregated = TRUE,
                            !.scoreWrites = @ + (IF HasScored(answers) THEN 1 ELSE 0)]
    /\ UNCHANGED <<answers, progress, notifications, user, study, topic, w, ai>>

\* line 100: the response carries the result
SubmitRespond(i) ==
    /\ req[i].pc = "respond"
    /\ req' = [req EXCEPT ![i] = Respond(@, 200)]
    /\ UNCHANGED <<attempt, answers, progress, notifications, user, study, topic, w, ai, hist>>

\* the tracking actions that write the attempt's status
TrackActions == {"pause", "resume"}

\* AttemptTrackingView.post, lines 211-226: load the attempt, refuse it unless
\* it is in_progress or paused
TrackGet(i) ==
    /\ req[i].pc = "new"
    /\ \E action \in TrackActions :
         req' = [req EXCEPT ![i] =
                   IF attempt.status \notin {"in_progress", "paused"}
                   THEN Respond([@ EXCEPT !.action = action, !.attempt = attempt], 400)
                   ELSE [@ EXCEPT !.action = action, !.attempt = attempt,
                                  !.pc = "track_write"]]
    /\ UNCHANGED <<attempt, answers, progress, notifications, user, study, topic, w, ai, hist>>

\* lines 287-300 and 308: save(update_fields=['status', 'paused_at', ...])
TrackSave(i) ==
    /\ req[i].pc = "track_write"
    /\ LET obj == [req[i].attempt EXCEPT
                     !.status = IF req[i].action = "pause" THEN "paused" ELSE "in_progress"]
       IN /\ attempt' = SaveFields(attempt, obj, {"status"})
          /\ req' = [req EXCEPT ![i] = Respond([@ EXCEPT !.attempt = obj], 200)]
    /\ UNCHANGED <<answers, progress, notifications, user, study, topic, w, ai, hist>>

\* the payload of an answer write: the other option of a multiple-choice
\* question (kinds 1 and 2 are the same question answered A and answered B)
Reselect(a) == [a EXCEPT !.kind = IF @ = 1 THEN 2 ELSE 1]

\* the stored answers a request may rewrite
Editable == {n \in DOMAIN answers : Q(answers[n]).question_type = "mcq"}

\* AnswerCreateUpdateView.post, lines 121-137: AnswerCreateSerializer.validate
\* loads the attempt and refuses the write unless it is in_progress
AnswerValidate(i) ==
    /\ req[i].pc = "new"
    /\ \E n \in Editable :
         req' = [req EXCEPT ![i] =
                   IF attempt.status # "in_progress"
                   THEN Respond([@ EXCEPT !.action = "answer", !.attempt = attempt,
                                          !.target = n], 400)
                   ELSE [@ EXCEPT !.action = "answer", !.attempt = attempt,
                                  !.target = n, !.pc = "answer_write"]]
    /\ UNCHANGED <<attempt, answers, progress, notifications, user, study, topic, w, ai, hist>>

\* AnswerCreateSerializer.create: update_or_create writes answer_text and
\* selected_option of the row, whatever the attempt's status is by now
AnswerSave(i) ==
    /\ req[i].pc = "answer_write"
    /\ answers' = [answers EXCEPT ![req[i].target] = Reselect(@)]
    /\ req' = [req EXCEPT ![i] = Respond(@, 201)]
    /\ UNCHANGED <<attempt, progress, notifications, user, study, topic, w, ai, hist>>

\* AttemptSyncAnswersView.post, lines 149-160: load the attempt, refuse the
\* sync unless it is in_progress or paused
SyncGet(i) ==
    /\ req[i].pc = "new"
    /\ \E n \in Editable :
         req' = [req EXCEPT ![i] =
                   IF attempt.status \notin {"in_progress", "paused"}
                   THEN Respond([@ EXCEPT !.action = "sync", !.attempt = attempt,
                                          !.target = n], 400)
                   ELSE [@ EXCEPT !.action = "sync", !.attempt = attempt,
                                  !.target = n, !.pc = "sync_write"]]
    /\ UNCHANGED <<attempt, answers, progress, notifications, user, study, topic, w, ai, hist>>

\* lines 165-187: update_or_create for each answer of the payload
SyncSave(i) ==
    /\ req[i].pc = "sync_write"
    /\ answers' = [answers EXCEPT ![req[i].target] = Reselect(@)]
    /\ req' = [req EXCEPT ![i] = Respond(@, 200)]
    /\ UNCHANGED <<attempt, progress, notifications, user, study, topic, w, ai, hist>>

InitSubmit ==
    /\ attempt = NewAttempt
    /\ \E sheet \in AnswerSheets :
         answers = [i \in DOMAIN sheet |-> NewAnswer(sheet[i])]
    /\ progress = NoProgress
    /\ notifications = <<>>
    /\ user = [email_notifications |-> FALSE, current_streak_days |-> 0,
               longest_streak_days |-> 0]
    /\ study = NoStudy(FALSE)
    /\ topic = NoTopic
    /\ ai = AIMarkingService(FALSE)
    /\ w = Thread("idle")
    /\ req = [i \in 1..NumRequests |-> NewRequest]
    /\ hist = NoHistory

NextSubmit ==
    \E i \in 1..NumRequests :
        \/ SubmitGet(i)
        \/ SubmitSave(i)
        \/ SubmitMcqQuery(i)
        \/ SubmitMcq(i)
        \/ SubmitWrittenQuery(i)
        \/ SubmitMark(i)
        \/ SubmitScore(i)
        \/ SubmitRespond(i)
        \/ TrackGet(i)
        \/ TrackSave(i)
        \/ AnswerValidate(i)
        \/ AnswerSave(i)
        \/ SyncGet(i)
        \/ SyncSave(i)

SpecSubmit == InitSubmit /\ [][NextSubmit]_vars

----------------------------------------------------------------------------
(* Claims about the marking run                                             *)

IsPrefix(s, t) == Len(s) <= Len(t) /\ \A i \in DOMAIN s : s[i] = t[i]

Last(s) == s[Len(s)]

StatusPath ==
    { <<"pending", "marking">>, <<"marking", "calculating">>,
      <<"calculating", "completed">>,
      <<"pending", "failed">>, <<"marking", "failed">>, <<"calculating", "failed">> }

\* C1: MarkingProgress.status only moves pending -> marking -> calculating ->
\* completed, or from a non-terminal state to failed; nothing leaves completed
\* or failed.
C1_StatusPath ==
    [][progress.status' # progress.status
         => <<progress.status, progress.status'>> \in StatusPath]_vars

FailureRecorded ==
    /\ progress.status = "failed"
    /\ progress.error_message
    /\ progress.messages # <<>> /\ Last(progress.messages) = Msg("error", 0)
    /\ progress.completed_at
    /\ \E i \in DOMAIN notifications : notifications[i] = "marking_failed"
    /\ attempt.status = "submitted"

\* C5 as claimed: an error raised after MCQ marking and before the aggregation
\* step ends the run with status failed, an error message, an appended 'error'
\* message, completed_at, a marking_failed notification, and the attempt still
\* submitted.
C5_FailureRecorded ==
    (w.pc = "done" /\ hist.errAt \in AfterMcqPcs) => FailureRecorded

\* C5 as amended: ... provided the recovery path of the handler does not raise.
C5_FailureRecordedIfRecovered ==
    (w.pc = "done" /\ hist.errAt \in AfterMcqPcs /\ ~hist.recoveryFailed)
        => FailureRecorded

C5_Witness ==
    /\ w.pc = "done" /\ hist.errAt = "w_mark" /\ ~hist.recoveryFailed
    /\ \E i \in DOMAIN answers : Q(answers[i]).question_type = "mcq" /\ answers[i].score # Null
    /\ FailureRecorded

\* the scores of the persisted Answer rows that have one
ScoredRows == { i \in DOMAIN answers : answers[i].score # Null }

RECURSIVE Total(_, _)
\* the sum of f over a finite set of indices
Total(f, S) ==
    IF S = {} THEN 0
    ELSE LET i == CHOOSE x \in S : TRUE IN f[i] + Total(f, S \ {i})

ScoreSum == Total([i \in DOMAIN answers |-> answers[i].score], ScoredRows)
MarksSum == Total([i \in DOMAIN answers |-> Q(answers[i]).marks], DOMAIN answers)

\* p is total / max * 100 to the nearest hundredth of a percent
IsPercentage(p, total, max_score) ==
    /\ 2 * (p * max_score - total * 100) <= max_score
    /\ 2 * (total * 100 - p * max_score) <= max_score

PercentageRight ==
    IF MarksSum > 0
    THEN attempt.percentage # Null /\ IsPercentage(attempt.percentage, ScoreSum, MarksSum)
    ELSE attempt.percentage = Null

\* scenario A: two 5-mark MCQs, one correct, no written answers, AI unavailable
ScenarioA == Len(answers) = 2 /\ answers[1].kind = 1 /\ answers[2].kind = 2 /\ ~ai.client

ScenarioAResult ==
    /\ attempt.total_score = 500 /\ attempt.percentage = 5000
    /\ hist.aiCalls = 0
    /\ (w.pc = "done" /\ hist.errAt = "none" => progress.status = "completed")

C8_AppendOnly ==
    [][/\ IsPrefix(progress.messages, progress.messages')
       /\ w.pc' # w.pc => progress.last_polled_at' = progress.last_polled_at]_vars

C8_Witness ==
    /\ progress.status = "failed" /\ w.pc = "done"
    /\ Len(progress.messages) >= 4
    /\ progress.last_polled_at = 0

\* C9: once the e-mail step has decided, an e-mail was sent if and only if the
\* user has e-mail notifications enabled and has not polled within the last
\* EmailStaleSeconds; email_sent is set at the end of the run in that case only.
C9_EmailIffAway ==
    hist.emailDecided =>
        /\ hist.emails = 1 <=> (user.email_notifications /\ ~hist.watching)
        /\ (w.pc = "done" /\ hist.errAt = "none")
              => (progress.email_sent <=> (user.email_notifications /\ ~hist.watching))

\* C10: while no database operation has failed, failures of the AI service
\* never bring the status to failed, and the run ends completed with every
\* answer graded.
C10_AIFailureTolerated ==
    ~hist.dbError =>
        /\ progress.status # "failed"
        /\ w.pc \notin HandlerPcs
        /\ w.pc = "done" => /\ progress.status = "completed"
                            /\ \A i \in DOMAIN answers : answers[i].score # Null

C10_Witness ==
    /\ ~hist.dbError /\ w.pc = "done" /\ progress.status = "completed"
    /\ ai.client /\ hist.aiCalls = 2 /\ hist.aiFailures = 1

----------------------------------------------------------------------------
(* Claims about the submit operation and the attempt's lifecycle            *)

\* C3: an attempt is never marked twice: whatever the interleaving of the
\* submit requests on one attempt, at most one of them flips the status to
\* submitted and runs a marking pass; every other one is answered with an error
\* before it marks anything.
C3_MarkedOnce ==
    /\ hist.flips <= 1
    /\ Cardinality({ i \in DOMAIN req : req[i].action = "submit"
                                       /\ req[i].pc \notin {"new", "flip"}
                                       /\ req[i].response # 400 }) <= 1

\* C4: the submit operation responds as soon as the attempt is flipped to
\* submitted: at its response no written answer has been graded by the request
\* and the attempt has not been moved to marked.
C4_RespondsBeforeGrading ==
    [][\A i \in 1..NumRequests :
         (req[i].pc = "respond" /\ req'[i].pc = "responded")
            => (req[i].graded = 0 /\ attempt.status = "submitted")]_vars

\* C7: the persisted total_score and percentage are null whenever the persisted
\* status is not marked, and they are written at most once.
C7_ScoresOnlyWhenMarked ==
    /\ attempt.status # "marked"
          => (attempt.total_score = Null /\ attempt.percentage = Null)
    /\ hist.scoreWrites <= 1

\* what the student wrote in each stored answer
Content(rows) == [n \in DOMAIN rows |-> rows[n].kind]

\* the positions at which a request writes on behalf of the student
StudentWritePcs == {"flip", "track_write", "answer_write", "sync_write"}

\* C11: once the attempt has been submitted, every student-side write (answer
\* create/update, answer sync, a tracking action, a second submit) is refused
\* and leaves the stored status and the answers' content as they were, however
\* the requests interleave with the submit request.
C11_WritesRefusedAfterSubmit ==
    [][\A i \in 1..NumRequests :
         (/\ attempt.status \notin {"in_progress", "paused"}
          /\ req[i].pc \in StudentWritePcs
          /\ req'[i].pc # req[i].pc)
            => (/\ req'[i].response = 400
                /\ attempt'.status = attempt.status
                /\ Content(answers') = Content(answers))]_vars

----------------------------------------------------------------------------
(* Two marking runs of one user in _sync_progress_tables.  Each get_or_create
   and each save is one database operation; the objects between them live in
   the run's memory.  In this specification req holds the runs and hist the
   rows as they were before the runs. *)

NumRuns == 2

\* an answer as a marking run without an AI client leaves it
Graded(a) ==
    IF Q(a).question_type = "mcq" THEN mark_mcq(a)
    ELSE mark_answer(a, FALSE, PlainResponse("raise"))

\* a TopicProgress row that earlier attempts have filled
PriorTopic ==
    [exists |-> TRUE, questions_attempted |-> 2, questions_correct |-> 1,
     total_marks_earned |-> 5, total_marks_possible |-> 10,
     mastery_level |-> "developing"]

\* lines 226-228: the run's user object and the attempt's answers
NewRun(rows, u) ==
    [pc |-> "topic_get", rows |-> rows, user |-> u, tp |-> NoTopic,
     session |-> NoStudy(FALSE)]

\* lines 244-247: TopicProgress.objects.get_or_create, when some answer
\* carries the topic
FanTopicGet(i) ==
    /\ req[i].pc = "topic_get"
    /\ IF Tagged(req[i].rows) = <<>>
       THEN /\ req' = [req EXCEPT ![i].pc = "session_get"]
            /\ UNCHANGED topic
       ELSE /\ topic' = [topic EXCEPT !.exists = TRUE]
            /\ req' = [req EXCEPT ![i].tp = topic', ![i].pc = "topic_save"]
    /\ UNCHANGED <<attempt, answers, progress, notifications, user, study, w, ai, hist>>

\* lines 248-253: the increments on the loaded object, then update_mastery()
\* saves every field of it
FanTopicSave(i) ==
    /\ req[i].pc = "topic_save"
    /\ topic' = SyncedTopic(req[i].tp, req[i].rows)
    /\ req' = [req EXCEPT ![i].tp = topic', ![i].pc = "session_get"]
    /\ UNCHANGED <<attempt, answers, progress, notifications, user, study, w, ai, hist>>

\* lines 263-272: StudySession.objects.get_or_create with the attempt's totals
\* as defaults
FanSessionGet(i) ==
    /\ req[i].pc = "session_get"
    /\ IF study.today
       THEN /\ req' = [req EXCEPT ![i].session = study, ![i].pc = "session_save"]
            /\ UNCHANGED study
       ELSE /\ study' = SyncedSession(study, req[i].rows)
            /\ req' = [req EXCEPT ![i].session = study', ![i].pc = "streak"]
    /\ UNCHANGED <<attempt, answers, progress, notifications, user, topic, w, ai, hist>>

\* lines 273-279: if not created, the increments on the loaded object and
\* session.save()
FanSessionSave(i) ==
    /\ req[i].pc = "session_save"
    /\ study' = [SyncedSession(req[i].session, req[i].rows) EXCEPT
                   !.yesterday = study.yesterday]
    /\ req' = [req EXCEPT ![i].session = study', ![i].pc = "streak"]
    /\ UNCHANGED <<attempt, answers, progress, notifications, user, topic, w, ai, hist>>

\* lines 282-294: the streak, from the run's user object
FanStreak(i) ==
    /\ req[i].pc = "streak"
    /\ LET current == NextStreak(req[i].user.current_streak_days, study.yesterday)
           longest == Max(req[i].user.longest_streak_days, current)
       IN /\ study' = [study EXCEPT !.streak_maintained = study.yesterday]
          /\ user' = [user EXCEPT !.current_streak_days = current,
                                  !.longest_streak_days = longest]
          /\ req' = [req EXCEPT ![i].pc = "done",
                                ![i].user.current_streak_days = current,
                                ![i].user.longest_streak_days = longest]
    /\ UNCHANGED <<attempt, answers, progress, notifications, topic, w, ai, hist>>

InitFanout ==
    /\ attempt = [NewAttempt EXCEPT !.status = "marked"]
    /\ answers = <<>>
    /\ progress = NoProgress
    /\ notifications = <<>>
    /\ user = [email_notifications |-> FALSE, current_streak_days |-> 0,
               longest_streak_days |-> 0]
    /\ \E y \in BOOLEAN : study = NoStudy(y)
    /\ topic \in {NoTopic, PriorTopic}
    /\ ai = AIMarkingService(FALSE)
    /\ w = Thread("idle")
    /\ \E sheets \in [1..NumRuns -> AnswerSheets] :
         req = [i \in 1..NumRuns |->
                  NewRun([n \in DOMAIN sheets[i] |-> Graded(NewAnswer(sheets[i][n]))],
                         user)]
    /\ hist = [topic |-> topic, study |-> study]

NextFanout ==
    \E i \in 1..NumRuns :
        \/ FanTopicGet(i)
        \/ FanTopicSave(i)
        \/ FanSessionGet(i)
        \/ FanSessionSave(i)
        \/ FanStreak(i)

SpecFanout == InitFanout /\ [][NextFanout]_vars

TaggedLen(rows) == Len(Tagged(rows))
TaggedCorrect(rows) == CountCorrect(Tagged(rows))
TaggedScores(rows) == SumScores(Tagged(rows))
TaggedMarks(rows) == SumMarks(Tagged(rows))

RECURSIVE SumSeq(_)
\* the sum of a sequence of numbers
SumSeq(s) == IF s = <<>> THEN 0 ELSE Head(s) + SumSeq(Tail(s))

\* the deltas of the runs, one sequence for each counter
RunsLen == [i \in 1..NumRuns |-> Len(req[i].rows)]
RunsCorrect == [i \in 1..NumRuns |-> CountCorrect(req[i].rows)]
RunsScores == [i \in 1..NumRuns |-> SumScores(req[i].rows)]
RunsMarks == [i \in 1..NumRuns |-> SumMarks(req[i].rows)]
RunsTaggedLen == [i \in 1..NumRuns |-> TaggedLen(req[i].rows)]
RunsTaggedCorrect == [i \in 1..NumRuns |-> TaggedCorrect(req[i].rows)]
RunsTaggedScores == [i \in 1..NumRuns |-> TaggedScores(req[i].rows)]
RunsTaggedMarks == [i \in 1..NumRuns |-> TaggedMarks(req[i].rows)]

\* C12: when two marking runs of one user have both finished the fan-out, in
\* any interleaving, every TopicProgress counter and every counter of the
\* day's StudySession equals its value before the runs plus the deltas of both
\* attempts (earned marks compared in hundredths of a mark).
C12_NoLostIncrement ==
    (\A i \in 1..NumRuns : req[i].pc = "done") =>
       /\ topic.questions_attempted
            = hist.topic.questions_attempted + SumSeq(RunsTaggedLen)
       /\ topic.questions_correct
            = hist.topic.questions_correct + SumSeq(RunsTaggedCorrect)
       /\ topic.total_marks_earned * 100
            = hist.topic.total_marks_earned * 100 + SumSeq(RunsTaggedScores)
       /\ topic.total_marks_possible
            = hist.topic.total_marks_possible + SumSeq(RunsTaggedMarks)
       /\ study.questions_attempted
            = hist.study.questions_attempted + SumSeq(RunsLen)
       /\ study.questions_correct
            = hist.study.questions_correct + SumSeq(RunsCorrect)
       /\ study.marks_earned * 100
            = hist.study.marks_earned * 100 + SumSeq(RunsScores)
       /\ study.marks_possible
            = hist.study.marks_possible + SumSeq(RunsMarks)

----------------------------------------------------------------------------
(* The marking run of a user who has a streak already *)

MaxStreak == 2

\* the state before start_marking_thread for a user with any streak and with
\* or without a study session yesterday
InitStreak ==
    /\ attempt = NewAttempt
    /\ \E sheet \in AnswerSheets :
         answers = [i \in DOMAIN sheet |-> NewAnswer(sheet[i])]
    /\ progress = NoProgress
    /\ notifications = <<>>
    /\ \E e \in BOOLEAN, current \in 0..MaxStreak :
         \E longest \in current..MaxStreak :
           user = [email_notifications |-> e, current_streak_days |-> current,
                   longest_streak_days |-> longest]
    /\ \E y \in BOOLEAN : study = NoStudy(y)
    /\ topic = NoTopic
    /\ ai = AIMarkingService(FALSE)
    /\ w = Thread("idle")
    /\ req = <<>>
    /\ hist = NoHistory

\* the run and its failures, with no client polling
NextRun ==
    \/ SubmitLaunch
    \/ WorkerStep
    \/ WRaise
    \/ HRaise

SpecStreak == InitStreak /\ [][NextRun]_vars

\* C13: the fan-out step of a marking run sets the user's current streak to
\* the previous streak + 1 when a study-session row exists for yesterday and to
\* 1 otherwise, and the longest streak to the maximum of the previous longest
\* streak and the new current streak.
C13_Streak ==
    [][(w.pc = "sync_streak" /\ w'.pc = "refresh") =>
         /\ user'.current_streak_days =
              (IF study.yesterday THEN user.current_streak_days + 1 ELSE 1)
         /\ user'.longest_streak_days =
              (IF user.longest_streak_days >= user'.current_streak_days
               THEN user.longest_streak_days ELSE user'.current_streak_days)]_vars

\* a run has extended a streak of MaxStreak days past the longest so far
C13_Witness ==
    /\ w.pc = "refresh"
    /\ study.yesterday
    /\ user.current_streak_days = MaxStreak + 1
    /\ user.longest_streak_days = MaxStreak + 1

----------------------------------------------------------------------------
(* The graders on one answer: the bodies of the two marking loops of
   _run_marking, for every question and answer of the bank, with and without
   an AI client, and for every reply of the AI service.  In this specification
   answers holds the one Answer row and req the reply the service will give. *)

\* the scores (hundredths of a mark) and confidences (hundredths) a reply carries
ReturnedScores == {0 - 100, 0, 150, 300, 500, 501, 900}
ReturnedConfidences == {0 - 20, 0, 49, 50, 79, 80, 95, 100, 150}

AIReplies ==
    {PlainResponse("raise"), PlainResponse("nojson"), PlainResponse("badtype")}
      \cup {JsonResponse(s, c) : s \in ReturnedScores, c \in ReturnedConfidences}

Ungraded(a) == a.confidence_level = ""

\* marking_runner lines 77-78: answer.mark_mcq() on a multiple-choice answer
GradeMcq ==
    /\ Ungraded(answers[1])
    /\ Q(answers[1]).question_type = "mcq"
    /\ answers' = <<mark_mcq(answers[1])>>
    /\ UNCHANGED <<attempt, progress, notifications, user, study, topic, w, ai, req, hist>>

\* marking_runner line 126: marking_service.mark_answer(answer) on any other
\* answer
GradeWritten ==
    /\ Ungraded(answers[1])
    /\ Q(answers[1]).question_type # "mcq"
    /\ answers' = <<mark_answer(answers[1], ai.client, req[1])>>
    /\ hist' = [hist EXCEPT
                  !.aiCalls = @ + (IF CallsAI(answers[1], ai.client) THEN 1 ELSE 0)]
    /\ UNCHANGED <<attempt, progress, notifications, user, study, topic, w, ai, req>>

InitGrade ==
    /\ attempt = [NewAttempt EXCEPT !.status = "submitted"]
    /\ \E k \in DOMAIN QuestionBank : answers = <<NewAnswer(k)>>
    /\ progress = NoProgress
    /\ notifications = <<>>
    /\ user = [email_notifications |-> FALSE, current_streak_days |-> 0,
               longest_streak_days |-> 0]
    /\ study = NoStudy(FALSE)
    /\ topic = NoTopic
    /\ \E client \in BOOLEAN : ai = AIMarkingService(client)
    /\ w = Thread("idle")
    /\ \E resp \in AIReplies : req = <<resp>>
    /\ hist = NoHistory

NextGrade == GradeMcq \/ GradeWritten

SpecGrade == InitGrade /\ [][NextGrade]_vars

\* C14: every graded multiple-choice answer is correct exactly when its
\* selected option equals the question's correct answer, scores the question's
\* marks when correct and 0 otherwise, has confidence 1.0 / high, and no AI
\* call was made for it, with or without an AI client.
C14_McqDeterministic ==
    LET a == answers[1]
    IN (Q(a).question_type = "mcq" /\ ~Ungraded(a)) =>
         /\ (a.is_correct = 1) <=> (Q(a).selected_option = Q(a).correct_answer)
         /\ a.is_correct \in {0, 1}
         /\ a.score = (IF a.is_correct = 1 THEN Q(a).marks * 100 ELSE 0)
         /\ a.confidence_score = 100
         /\ a.confidence_level = "high"
         /\ hist.aiCalls = 0

\* a wrongly answered multiple-choice answer graded while an AI client exists
C14_Witness ==
    /\ Q(answers[1]).question_type = "mcq"
    /\ ~Ungraded(answers[1])
    /\ Q(answers[1]).selected_option = "B"
    /\ Q(answers[1]).correct_answer = "A"
    /\ answers[1].score = 0
    /\ ai.client

\* an Answer without content: no selected option on a multiple-choice
\* question, an empty or whitespace-only text on any other
EmptyContent(a) ==
    IF Q(a).question_type = "mcq" THEN Q(a).selected_option = ""
    ELSE Q(a).text_len = 0

\* C15: every graded answer with empty content has score 0, is_correct false
\* and confidence 1.0, and no AI call was made for it.
C15_EmptyScoresZero ==
    LET a == answers[1]
    IN (EmptyContent(a) /\ ~Ungraded(a)) =>
         /\ a.score = 0
         /\ a.is_correct = 0
         /\ a.confidence_score = 100
         /\ hist.aiCalls = 0

\* the AI call for the answer was made and returned an object that parses
ParsedReply(a) == CallsAI(a, ai.client) /\ req[1].kind = "json"

\* C16: whenever the AI call succeeds and returns a parseable object, the
\* stored score lies in [0, question.marks], for every score the model returns,
\* below 0 and above question.marks included.
C16_ScoreClamped ==
    LET a == answers[1]
    IN (~Ungraded(a) /\ ParsedReply(a)) =>
         (0 <= a.score /\ a.score <= Q(a).marks * 100)

\* a reply with a score above the question's marks and one below 0 have been
\* stored as the marks and as 0
C16_Witness ==
    /\ ~Ungraded(answers[1])
    /\ ParsedReply(answers[1])
    /\ req[1].score > Q(answers[1]).marks * 100
    /\ answers[1].score = Q(answers[1]).marks * 100
    /\ answers[1].ai_marked

\* the answer was graded from a reply of the AI service
AIGraded(a) == ~Ungraded(a) /\ a.ai_marked /\ CallsAI(a, ai.client)

\* C17: an answer graded by the AI on a question without a marking scheme has
\* a stored confidence_score of at most 0.79 and a confidence_level that is not
\* high, whatever confidence the model returns.
C17_ConfidenceCapped ==
    LET a == answers[1]
    IN (AIGraded(a) /\ ~Q(a).marking_scheme) =>
         (a.confidence_score <= 79 /\ a.confidence_level # "high")

\* a returned confidence of 0.95 stored as 0.79 / medium
C17_Witness ==
    /\ AIGraded(answers[1])
    /\ ~Q(answers[1]).marking_scheme
    /\ req[1].kind = "json"
    /\ req[1].confidence = 95
    /\ answers[1].confidence_score = 79
    /\ answers[1].confidence_level = "medium"

\* the grading of the answer could not use the AI: no client, the call raised,
\* or the reply does not parse as the expected object
ExtractionFailed(a) ==
    Q(a).question_type # "mcq" /\ Q(a).text_len > 0
      /\ (~ai.client \/ req[1].kind \in {"raise", "nojson", "badtype"})

\* C18: on any extraction failure for a non-empty written answer the answer is
\* graded by the length heuristic: 25% of the marks below 20 characters, 50%
\* below 50 characters, 60% otherwise, with confidence 0.3 / low and ai_marked
\* false.
C18_FailureFallsBack ==
    LET a == answers[1]
    IN (~Ungraded(a) /\ ExtractionFailed(a)) =>
         /\ a.score = (IF Q(a).text_len < 20 THEN Q(a).marks * 25
                       ELSE IF Q(a).text_len < 50 THEN Q(a).marks * 50
                       ELSE Q(a).marks * 60)
         /\ a.confidence_score = 30
         /\ a.confidence_level = "low"
         /\ ~a.ai_marked

\* C18 (amended): when the AI client is unavailable, the call raises or the
\* reply's score is of a wrong type, a non-empty written answer is graded by the
\* length heuristic (25% / 50% / 60% of the marks below 20 / below 50 / from 50
\* characters, confidence 0.3 / low, ai_marked false); when the reply holds no
\* parseable JSON object the answer gets the parser's default instead: half the
\* marks whatever the length, confidence 0.5 / medium, ai_marked true.
C18_FailureGraded ==
    LET a == answers[1]
        unparsed == ai.client /\ req[1].kind = "nojson"
    IN (~Ungraded(a) /\ ExtractionFailed(a)) =>
         IF unparsed
         THEN /\ a.score = Q(a).marks * 50
              /\ a.confidence_score = 50
              /\ a.confidence_level = "medium"
              /\ a.ai_marked
         ELSE /\ a.score = (IF Q(a).text_len < 20 THEN Q(a).marks * 25
                            ELSE IF Q(a).text_len < 50 THEN Q(a).marks * 50
                            ELSE Q(a).marks * 60)
              /\ a.confidence_score = 30
              /\ a.confidence_level = "low"
              /\ ~a.ai_marked

\* scenario C: the call raised on a 30-character answer, which got half the
\* question's marks from the heuristic
C18_Witness ==
    /\ ~Ungraded(answers[1])
    /\ ai.client
    /\ req[1].kind = "raise"
    /\ Q(answers[1]).text_len = 30
    /\ answers[1].score = Q(answers[1]).marks * 50
    /\ answers[1].confidence_score = 30
    /\ ~answers[1].ai_marked

----------------------------------------------------------------------------
(* Question extraction (paper_processing) and boundary detection
   (split_greenbook): the reply of the model as a sequence of the characters
   that matter to the code: brackets, braces, commas, keys (k) and scalar
   values (v). *)

MaxObjects == 3

\* the objects a reply is built from: {"a":1} and {"a":[1]}
Flat == <<"{", "k", "v", "}">>
WithList == <<"{", "k", "[", "v", "]", "}">>

RECURSIVE Joined(_)
\* the objects separated by commas
Joined(objs) ==
    IF objs = <<>> THEN <<>>
    ELSE IF Len(objs) = 1 THEN objs[1]
    ELSE objs[1] \o <<",">> \o Joined(Tail(objs))

\* a JSON array of the objects
ArrayOf(objs) == <<"[">> \o Joined(objs) \o <<"]">>

\* every array of up to MaxObjects objects, whole or cut off at any character
Replies ==
    UNION { { SubSeq(ArrayOf(objs), 1, n) : n \in 0..Len(ArrayOf(objs)) } :
            objs \in UNION { [1..m -> {Flat, WithList}] : m \in 0..MaxObjects } }

RECURSIVE Scan(_, _, _, _)
\* json.loads as a recogniser: t from character i on, inside the open brackets
\* of stack, with mode saying what may come next
Scan(t, i, stack, mode) ==
    IF i > Len(t) THEN mode = "after" /\ stack = <<>>
    ELSE LET c == t[i]
             top == IF stack = <<>> THEN "" ELSE stack[Len(stack)]
             pop == SubSeq(stack, 1, Len(stack) - 1)
         IN CASE mode \in {"value", "elem0"} ->
                   IF c = "v" THEN Scan(t, i + 1, stack, "after")
                   ELSE IF c = "[" THEN Scan(t, i + 1, Append(stack, "["), "elem0")
                   ELSE IF c = "{" THEN Scan(t, i + 1, Append(stack, "{"), "memb0")
                   ELSE IF c = "]" /\ mode = "elem0" THEN Scan(t, i + 1, pop, "after")
                   ELSE FALSE
              [] mode \in {"key", "memb0"} ->
                   IF c = "k" THEN Scan(t, i + 1, stack, "value")
                   ELSE IF c = "}" /\ mode = "memb0" THEN Scan(t, i + 1, pop, "after")
                   ELSE FALSE
              [] OTHER ->
                   IF c = "," /\ top = "[" THEN Scan(t, i + 1, stack, "value")
                   ELSE IF c = "," /\ top = "{" THEN Scan(t, i + 1, stack, "key")
                   ELSE IF c = "]" /\ top = "[" THEN Scan(t, i + 1, pop, "after")
                   ELSE IF c = "}" /\ top = "{" THEN Scan(t, i + 1, pop, "after")
                   ELSE FALSE

\* whether json.loads(t) returns (it raises JSONDecodeError otherwise)
IsJson(t) == Scan(t, 1, <<>>, "value")

\* str.find and str.rfind, 1-based, 0 when there is no occurrence
find(t, c) ==
    IF \E i \in DOMAIN t : t[i] = c
    THEN CHOOSE i \in DOMAIN t : t[i] = c /\ \A j \in 1..(i - 1) : t[j] # c
    ELSE 0

rfind(t, c) ==
    IF \E i \in DOMAIN t : t[i] = c
    THEN CHOOSE i \in DOMAIN t : t[i] = c /\ \A j \in (i + 1)..Len(t) : t[j] # c
    ELSE 0

\* rfind of the two characters c d
rfind2(t, c, d) ==
    LET at == {i \in 1..(Len(t) - 1) : t[i] = c /\ t[i + 1] = d}
    IN IF at = {} THEN 0 ELSE CHOOSE i \in at : \A j \in at : j <= i

\* what an extraction returns: None, or the parsed document
NoData == [ok |-> FALSE, questions |-> <<>>]
Parsed(t) == [ok |-> TRUE, questions |-> t]

\* json_str[:last_complete + 1] + ']'
Closed(json_str, last_complete) == Append(SubSeq(json_str, 1, last_complete), "]")

\* _extract_questions_with_vision lines 398-433 and _extract_questions_with_ai
\* lines 552-580: the text from the first '[' to the last ']', parsed, or
\* repaired by closing it after the last '},' or after the last '}'
ExtractQuestions(response_text) ==
    LET start == find(response_text, "[")
        end == rfind(response_text, "]")
        json_str == SubSeq(response_text, start, end)
        first == rfind2(json_str, "}", ",")
        second == rfind(json_str, "}")
    IN IF start = 0 \/ end < start THEN NoData
       ELSE IF IsJson(json_str) THEN Parsed(json_str)
       ELSE IF first > 1 /\ IsJson(Closed(json_str, first))
            THEN Parsed(Closed(json_str, first))
       ELSE IF second > 1 /\ IsJson(Closed(json_str, second))
            THEN Parsed(Closed(json_str, second))
       ELSE NoData

\* Command._parse_boundaries_response: the same substring, parsed without any
\* repair
_parse_boundaries_response(response_text) ==
    LET start == find(response_text, "[")
        end == rfind(response_text, "]")
        json_str == SubSeq(response_text, start, end)
    IN IF start = 0 \/ end < start THEN NoData
       ELSE IF IsJson(json_str) THEN Parsed(json_str)
       ELSE NoData

\* paper_processing.py:271 and :234, :440-441, :444-446
DefaultDpi == 150
DefaultPages == 20
MinDpi == 72
DpiStep == 50
FewerPages == 15

\* the extractor's frame: the task, the settings of the current call, the
\* requests sent to the model and those it rejected as too large
Extractor(task) ==
    [task |-> task, pc |-> task, dpi |-> DefaultDpi, max_pages |-> DefaultPages,
     sent |-> 0, rejected |-> 0, replied |-> FALSE, result |-> NoData]

Return(t, result) == [t EXCEPT !.pc = "done", !.result = result]

\* a variant that lowers the resolution by half a step
DowngradeSlowly(t) ==
    IF t.dpi > MinDpi
    THEN [t EXCEPT !.pc = "vision", !.dpi = Max(MinDpi, t.dpi - DpiStep \div 2)]
    ELSE IF t.max_pages > FewerPages
    THEN [t EXCEPT !.pc = "vision", !.max_pages = FewerPages]
    ELSE Return(t, NoData)

\* a variant that cuts the page budget before the resolution
DowngradePagesFirst(t) ==
    IF t.max_pages > FewerPages
    THEN [t EXCEPT !.pc = "vision", !.max_pages = FewerPages]
    ELSE IF t.dpi > MinDpi
    THEN [t EXCEPT !.pc = "vision", !.dpi = Max(MinDpi, t.dpi - DpiStep)]
    ELSE Return(t, NoData)

\* lines 438-451: after a 413, the recursive call at a lower resolution, then
\* with fewer pages, then None
Downgrade(t) ==
    IF t.dpi > MinDpi
    THEN [t EXCEPT !.pc = "vision", !.dpi = Max(MinDpi, t.dpi - DpiStep)]
    ELSE IF t.max_pages > FewerPages
    THEN [t EXCEPT !.pc = "vision", !.max_pages = FewerPages]
    ELSE Return(t, NoData)

\* _extract_questions_with_vision, lines 282-287: convert_pdf_to_images
VisionConvert ==
    /\ w.pc = "vision"
    /\ \E converted \in BOOLEAN :
         w' = IF converted THEN [w EXCEPT !.pc = "vision_request"]
              ELSE Return(w, NoData)
    /\ UNCHANGED <<attempt, answers, progress, notifications, user, study, topic, ai, req, hist>>

\* lines 382-451: the request; the model replies, rejects the request as too
\* large (413), or the call fails otherwise
VisionRequest ==
    /\ w.pc = "vision_request"
    /\ \E outcome \in {"reply", "413", "error"} :
         LET sent == [w EXCEPT !.sent = @ + 1]
         IN w' = CASE outcome = "reply" ->
                        Return([sent EXCEPT !.replied = TRUE], ExtractQuestions(req[1]))
                   [] outcome = "413" -> Downgrade([sent EXCEPT !.rejected = @ + 1])
                   [] OTHER -> Return(sent, NoData)
    /\ UNCHANGED <<attempt, answers, progress, notifications, user, study, topic, ai, req, hist>>

\* _extract_questions_with_ai, lines 541-585
TextRequest ==
    /\ w.pc = "text"
    /\ \E outcome \in {"reply", "error"} :
         LET sent == [w EXCEPT !.sent = @ + 1]
         IN w' = IF outcome = "reply"
                 THEN Return([sent EXCEPT !.replied = TRUE], ExtractQuestions(req[1]))
                 ELSE Return(sent, NoData)
    /\ UNCHANGED <<attempt, answers, progress, notifications, user, study, topic, ai, req, hist>>

\* split_greenbook, lines 435-447: the boundary-detection request
BoundariesRequest ==
    /\ w.pc = "boundaries"
    /\ \E outcome \in {"reply", "error"} :
         LET sent == [w EXCEPT !.sent = @ + 1]
         IN w' = IF outcome = "reply"
                 THEN Return([sent EXCEPT !.replied = TRUE],
                             _parse_boundaries_response(req[1]))
                 ELSE Return(sent, NoData)
    /\ UNCHANGED <<attempt, answers, progress, notifications, user, study, topic, ai, req, hist>>

\* req holds the text the model replies with when it replies
InitExtract ==
    /\ attempt = NewAttempt
    /\ answers = <<>>
    /\ progress = NoProgress
    /\ notifications = <<>>
    /\ user = [email_notifications |-> FALSE, current_streak_days |-> 0,
               longest_streak_days |-> 0]
    /\ study = NoStudy(FALSE)
    /\ topic = NoTopic
    /\ ai = AIMarkingService(TRUE)
    /\ \E task \in {"vision", "text", "boundaries"} : w = Extractor(task)
    /\ \E text \in Replies : req = <<text>>
    /\ hist = NoHistory

NextExtract == VisionConvert \/ VisionRequest \/ TextRequest \/ BoundariesRequest

SpecExtract == InitExtract /\ [][NextExtract]_vars

\* the last character of the leading well-formed objects of an array that was
\* cut off: the largest j with t[1..j] ending an object and t[1..j] ] a document
Leading(t) ==
    LET ends == {j \in DOMAIN t : t[j] = "}" /\ IsJson(Closed(t, j))}
    IN IF ends = {} THEN 0 ELSE CHOOSE j \in ends : \A i \in ends : i <= j

\* an array cut off inside an object that follows a complete one, its closing
\* bracket missing
TruncatedMidObject(t) ==
    /\ Leading(t) > 0
    /\ Len(t) >= Leading(t) + 2
    /\ t[Leading(t) + 1] = ","
    /\ t[Leading(t) + 2] = "{"

\* C19: when the reply is a JSON array cut off inside an object, with no
\* closing bracket, question extraction returns the leading well-formed
\* objects (for [{"a":1},{"a":2 the array [{"a":1}]) and not no data.
C19_TruncatedRepaired ==
    (/\ w.pc = "done"
     /\ w.task \in {"vision", "text"}
     /\ w.replied
     /\ TruncatedMidObject(req[1]))
       => w.result = Parsed(Closed(req[1], Leading(req[1])))

\* C20: from the default settings, and whatever the model answers, a vision
\* extraction sends at most two requests.
C20_RetriesOnce ==
    w.task = "vision" => w.sent <= 2

\* the settings of the call that follows the given number of rejections
SettingsAfter(rejections) ==
    CASE rejections = 0 -> <<150, 20>>
      [] rejections = 1 -> <<100, 20>>
      [] rejections = 2 -> <<72, 20>>
      [] OTHER -> <<72, 15>>

\* C20 (amended): a vision extraction lowers its settings step by step after
\* each rejection (150, 100 and 72 DPI with 20 pages, then 72 DPI with 15
\* pages): it sends at most four requests, and after the fourth rejection it
\* gives up and returns no data.
C20_ProgressiveRetries ==
    w.task = "vision" =>
       /\ w.sent <= 4
       /\ w.rejected <= w.sent /\ w.sent <= w.rejected + 1
       /\ <<w.dpi, w.max_pages>> = SettingsAfter(w.rejected)
       /\ w.rejected = 4 => (w.pc = "done" /\ w.result = NoData)
       /\ (w.pc = "done" /\ ~w.replied) => w.result = NoData

\* every request of a vision extraction was rejected and it gave up
C20_Witness ==
    /\ w.task = "vision"
    /\ w.pc = "done"
    /\ w.rejected = 4
    /\ w.sent = 4
    /\ w.result = NoData

----------------------------------------------------------------------------
(* Claims about the end of the marking run *)

Notified(kind) == \E i \in DOMAIN notifications : notifications[i] = kind

\* the steps of _maybe_send_email and _send_results_email
EmailPcs == {"email", "email_save"}

\* C21: a failure inside the e-mail step never fails the marking run:
\* progress.status stays completed and no marking_failed notification is
\* created.
C21_EmailFailureSwallowed ==
    hist.errAt \in EmailPcs =>
       (progress.status = "completed" /\ ~Notified("marking_failed"))

\* C22: after any grading path the stored confidence_score lies in [0.0, 1.0]
\* and confidence_level is the bucket derived from it, for every confidence
\* the model may return.
C22_ConfidenceInRange ==
    LET a == answers[1]
    IN ~Ungraded(a) =>
         /\ a.confidence_score >= 0
         /\ a.confidence_score <= 100
         /\ a.confidence_level = ConfidenceLevel(a.confidence_score)

\* C23: at the moment progress.status becomes calculating every Answer of the
\* attempt has a non-null persisted score, whether the AI service is
\* available, unavailable or failing on every call.
C23_AllScoredAtCalculating ==
    [][(progress.status # "calculating" /\ progress'.status = "calculating")
         => \A n \in DOMAIN answers' : answers'[n].score # Null]_vars

\* a run whose every AI call failed reaches calculating with all answers scored
C23_Witness ==
    /\ progress.status = "calculating"
    /\ w.pc = "score"
    /\ Len(w.written) >= 2
    /\ hist.aiFailures = Len(w.written)
    /\ \A n \in DOMAIN answers : answers[n].score # Null

\* the 'progress' and 'result' messages of a log, in log order
GradingLog(log) == SelectSeq(log, LAMBDA m : m[1] \in {"progress", "result"})

\* the answers of the attempt that are not multiple choice
WrittenAnswers == {n \in DOMAIN answers : Q(answers[n]).question_type # "mcq"}

\* C24: in every run that reaches completed the message log holds the start
\* message first; then, for the written answers in question order, each
\* answer's 'progress' message followed by its 'result' message before the
\* next answer's 'progress' message; then the 'complete' message after all
\* result messages.
C24_MessageOrder ==
    progress.status = "completed" =>
       LET log == progress.messages
           g == GradingLog(log)
           count == Cardinality(WrittenAnswers)
       IN /\ Len(log) >= 1
          /\ log[1] = Msg("info", 0)
          /\ Len(g) = 2 * count
          /\ \A i \in 1..count :
                /\ g[2 * i - 1][2] \in WrittenAnswers
                /\ g[2 * i - 1] = Msg("progress", g[2 * i - 1][2])
                /\ g[2 * i] = Msg("result", g[2 * i - 1][2])
          /\ \A i, j \in 1..count : i < j => g[2 * i - 1][2] < g[2 * j - 1][2]
          /\ \E c \in DOMAIN log :
                /\ log[c] = Msg("complete", 0)
                /\ \A r \in DOMAIN log : log[r][1] = "result" => r < c

\* a completed run of at least two written answers and an MCQ, with filler
\* messages between the progress and the result messages
C24_Witness ==
    /\ progress.status = "completed"
    /\ Cardinality(WrittenAnswers) >= 2
    /\ WrittenAnswers # DOMAIN answers
    /\ \E i \in DOMAIN progress.messages :
          /\ i > 1 /\ i < Len(progress.messages)
          /\ progress.messages[i] = Msg("fun", 0)
          /\ progress.messages[i - 1][1] = "progress"
          /\ progress.messages[i + 1][1] = "result"

\* the steps at which the worker is about to grade an answer
GradingPcs == {"mcq", "w_mark"}

\* C25: every change of questions_marked is persisted one item at a time:
\* once the worker has persisted the grade of the k-th answer of the run and
\* before it grades the next one, a poll reads questions_marked = k.
C25_CounterPersistedPerItem ==
    w.pc \in GradingPcs =>
       progress.questions_marked =
          Cardinality({n \in DOMAIN answers : ~Ungraded(answers[n])})

\* a step in which a vision request is rejected as too large
Rejected == w.task = "vision" /\ w'.rejected = w.rejected + 1

\* C26: the too-large retry chain of vision extraction terminates: each retry
\* strictly lowers the resolution, never below 72 DPI, or, once at 72 DPI,
\* lowers the page budget from above 15 to 15; a request rejected at 72 DPI
\* and 15 pages is followed by no further request and the result is no data.
C26_RetryChainTerminates ==
    /\ [](w.dpi >= 72 /\ w.max_pages >= 15)
    /\ [][Rejected =>
            \/ /\ w.dpi > 72
               /\ w'.dpi < w.dpi /\ w'.max_pages = w.max_pages
               /\ w'.pc = "vision"
            \/ /\ w.dpi = 72 /\ w.max_pages > 15
               /\ w'.dpi = 72 /\ w'.max_pages = 15
               /\ w'.pc = "vision"
            \/ /\ w.dpi = 72 /\ w.max_pages = 15
               /\ w'.dpi = 72 /\ w'.max_pages = 15
               /\ w'.pc = "done" /\ w'.result = NoData]_vars
    /\ [][w.pc = "done" => w'.sent = w.sent]_vars

\* the chain went through the page cut and was rejected once more
C26_Witness ==
    /\ w.task = "vision"
    /\ w.pc = "done"
    /\ w.dpi = 72 /\ w.max_pages = 15
    /\ w.rejected = w.sent
    /\ ~w.replied
    /\ w.result = NoData

\* C27: whenever MarkingProgress.status is completed the persisted
\* attempt.status is marked and marked_at is set, for every attempt including
\* one with no answers at all.
C27_CompletedIsMarked ==
    progress.status = "completed" =>
       (attempt.status = "marked" /\ attempt.marked_at)

\* C28: whenever a marking run ends with progress.status = failed the
\* persisted attempt.status is not marked, at whichever step of the run the
\* error was raised.
C28_FailedIsNotMarked ==
    progress.status = "failed" => attempt.status # "marked"

\* C29: a single marking run creates at most one outcome notification for the
\* user: never both a marking_complete and a marking_failed notification for
\* the same attempt, whichever step an error is raised in.
C29_OneOutcomeNotification ==
    /\ Len(notifications) <= 1
    /\ ~(Notified("marking_complete") /\ Notified("marking_failed"))

----------------------------------------------------------------------------
(* Several attempts of one user marked on the same calendar day: the runs of
   the fan-out, each loading its user object when it starts, so that a run
   may start before or after another one has finished. *)

\* _run_marking, lines 61-64: the attempt is loaded with select_related
\* ('user'); the run keeps this user object until the streak step
FanLoad(i) ==
    /\ req[i].pc = "load"
    /\ req' = [req EXCEPT ![i].pc = "topic_get", ![i].user = user]
    /\ UNCHANGED <<attempt, answers, progress, notifications, user, study, topic, w, ai, hist>>

InitDay ==
    /\ attempt = [NewAttempt EXCEPT !.status = "marked"]
    /\ answers = <<>>
    /\ progress = NoProgress
    /\ notifications = <<>>
    /\ \E current \in 0..MaxStreak :
         user = [email_notifications |-> FALSE, current_streak_days |-> current,
                 longest_streak_days |-> current]
    /\ \E y \in BOOLEAN : study = NoStudy(y)
    /\ topic = NoTopic
    /\ ai = AIMarkingService(FALSE)
    /\ w = Thread("idle")
    /\ \E sheets \in [1..NumRuns -> AnswerSheets] :
         req = [i \in 1..NumRuns |->
                  [NewRun([n \in DOMAIN sheets[i] |-> Graded(NewAnswer(sheets[i][n]))],
                          user) EXCEPT !.pc = "load"]]
    /\ hist = [topic |-> topic, study |-> study]

NextDay ==
    \E i \in 1..NumRuns :
        \/ FanLoad(i)
        \/ FanTopicGet(i)
        \/ FanTopicSave(i)
        \/ FanSessionGet(i)
        \/ FanSessionSave(i)
        \/ FanStreak(i)

SpecDay == InitDay /\ [][NextDay]_vars

\* some attempt of the day has been through the streak step
MarkedToday == \E i \in DOMAIN req : req[i].pc = "done"

\* C30: the streak counts days, not attempts: when several attempts of the
\* same user are marked on the same calendar day, current_streak_days after
\* the last of them equals its value after the first of them.
C30_StreakCountsDays ==
    [][MarkedToday => user'.current_streak_days = user.current_streak_days]_vars

====
